---- MODULE Spec2Model ----
(***************************************************************************)
(* A model of bevy_anyhow_alert's toast scheduler (src/src/lib.rs).        *)
(*                                                                         *)
(* ToastPlugin<M> is installed once per marker type M (a "channel").  Each *)
(* plugin adds four chained systems to PostUpdate.  Systems read the ECS   *)
(* World through queries and write it through Commands, which are          *)
(* deferred: they are queued while the system runs and applied at the next *)
(* synchronisation point of the schedule.  Only tick_active_toasts writes  *)
(* components directly (through &mut ToastTimer).                           *)
(*                                                                         *)
(* The World is one record, so that every system is an operator from       *)
(* World to World.                                                         *)
(***************************************************************************)
EXTENDS Integers, Sequences, FiniteSets, TLC

\* The marker types the plugin is installed for: the default marker and the
\* custom marker of the tests.
Channels == {"ToastMarker", "MyToast"}

\* MaxToasts::<M>::new(3)
MaxToasts == 3

\* ToastLifetime::<M>::new(Duration::from_secs(10)), in seconds
ToastLifetime == 10

\* Bounds of the model.
MaxRecords == 5
MaxFrames == 3
MaxAdapterFrames == 4

\* Values of time.delta() (seconds).  A run has frames of one duration, as
\* under TimeUpdateStrategy::ManualDuration: either short frames, or frames
\* longer than the lifetime of a toast.
Deltas == {1, 11}

\* The texts of the messages: the k-th message a run emits to a channel is
\* the k-th of these (a, b, c, ...), so the n messages of one input vector
\* are distinct and in alphabetical order.
Alphabet == <<"a", "b", "c", "d", "e", "f", "g", "h">>

\* The input vector of an emission of n messages, k messages having been
\* emitted to the channel before.
Batch(k, n) == [i \in 1..n |-> Alphabet[((k + i - 1) % Len(Alphabet)) + 1]]

VARIABLES
    world,      \* the ECS World: entities, components, queued commands
    shadow,     \* for each channel A, the World of the run without emissions on A
    phase,      \* the schedule (or link of the system chain) that runs next
    delta,      \* time.delta(), the duration of every frame of the run
    frame,      \* number of frames started
    activated,  \* whether a dismiss control has ever been Pressed
    emitted,    \* per channel, the number of messages emitted so far
    observed    \* what an observer of the run remembers of earlier steps

sched == <<phase, delta, frame>>
vars == <<world, shadow, phase, delta, frame, activated, emitted, observed>>

----------------------------------------------------------------------------
\* Components and entities

\* A toast entity is named by its marker and its arrival number among the
\* entities spawned with that marker.
NoEntities == [e \in {} |-> FALSE]

\* Toast::bundle(message, lifetime): Toast, Name, ToastTimer with a new
\* Stopwatch.  ui is the ToastUi component, parent the Parent component
\* (set by add_child(root)).
Toast_bundle(message, lifetime, M) ==
    [message |-> message, time_alive |-> 0, lifetime |-> lifetime,
     marker |-> M, ui |-> FALSE, parent |-> FALSE]

\* The World of a new App: no entities, empty command queues.
\*   toasts     the entities with a Toast component
\*   table      per marker, the rows of the table that stores the toasts
\*              without ToastUi, in row order (the order a query iterates)
\*   roots      per marker, the number of ToastUiRoot entities
\*   buttons    the DismissButton entities, by the toast they refer to,
\*              with their Interaction
\*   allocated  per marker, the number of toast entities spawned so far
\*   commands   the queued commands of the systems that ran since the last
\*              synchronisation point
\*   despawn_errors  despawn commands applied to an entity that was gone
NewWorld ==
    [toasts |-> NoEntities,
     table |-> [M \in Channels |-> <<>>],
     roots |-> [M \in Channels |-> 0],
     buttons |-> NoEntities,
     allocated |-> [M \in Channels |-> 0],
     commands |-> <<>>,
     despawn_errors |-> 0]

----------------------------------------------------------------------------
\* Table storage: removing a row moves the last row into its place.

IndexOf(s, x) == CHOOSE i \in 1..Len(s) : s[i] = x

swap_remove(s, i) ==
    IF i = Len(s) THEN SubSeq(s, 1, Len(s) - 1)
    ELSE [k \in 1..(Len(s) - 1) |-> IF k = i THEN s[Len(s)] ELSE s[k]]

RemoveRow(s, x) ==
    IF \E i \in 1..Len(s) : s[i] = x THEN swap_remove(s, IndexOf(s, x)) ELSE s

\* Iterator::take
Take(s, n) == SubSeq(s, 1, IF n < Len(s) THEN n ELSE Len(s))

Restrict(f, S) == [x \in S |-> f[x]]

RECURSIVE SetToSeq(_)
SetToSeq(S) ==
    IF S = {} THEN <<>>
    ELSE LET x == CHOOSE y \in S : TRUE IN <<x>> \o SetToSeq(S \ {x})

----------------------------------------------------------------------------
\* Queries

\* Mutant: the query lacks With<M>.
spawned_toasts_AnyMarker(w, M) == {e \in DOMAIN w.toasts : w.toasts[e].ui}

\* Query<Entity, (With<M>, With<ToastUi>)>
spawned_toasts(w, M) ==
    {e \in DOMAIN w.toasts : w.toasts[e].marker = M /\ w.toasts[e].ui}

\* Query<(Entity, &Toast), (With<M>, Without<ToastUi>)>, in iteration order
toasts_to_spawn(w, M) ==
    SelectSeq(w.table[M], LAMBDA e : e \in DOMAIN w.toasts /\ ~w.toasts[e].ui)

\* Query<Entity, (With<M>, With<ToastUiRoot>)>: the number of matches
toasts_ui_root(w, M) == w.roots[M]

\* Query<(&Interaction, &DismissButton)>: every dismiss button of the World
dismiss_buttons(w, M) == DOMAIN w.buttons

----------------------------------------------------------------------------
\* Commands (deferred World mutations)

RootOf(M) == <<M, 0>>

Cmd(op, e, M) == [op |-> op, entity |-> e, marker |-> M]

Push(w, cmds) == [w EXCEPT !.commands = @ \o cmds]

\* commands.spawn((ToastUiRoot, Name, NodeBundle, M::default()))
SpawnRoot(w, M) == [w EXCEPT !.roots[M] = @ + 1]

\* World::despawn of a toast and, recursively, of its children (the dismiss
\* button and the text); the row it had in a table is swap-removed.
DespawnToast(w, e) ==
    IF e \notin DOMAIN w.toasts
    THEN [w EXCEPT !.despawn_errors = @ + 1]
    ELSE [w EXCEPT !.toasts = Restrict(@, DOMAIN @ \ {e}),
                   !.buttons = Restrict(@, DOMAIN @ \ {e}),
                   !.table[w.toasts[e].marker] = RemoveRow(@, e)]

\* commands.entity(root).despawn_recursive(): the root and every toast that
\* is a child of it.
DespawnRoot(w, M) ==
    IF w.roots[M] = 0
    THEN [w EXCEPT !.despawn_errors = @ + 1]
    ELSE LET children == {e \in DOMAIN w.toasts :
                              w.toasts[e].marker = M /\ w.toasts[e].parent}
         IN [w EXCEPT !.roots[M] = @ - 1,
                      !.toasts = Restrict(@, DOMAIN @ \ children),
                      !.buttons = Restrict(@, DOMAIN @ \ children)]

\* Mutant: ToastUi is missing from the inserted bundle; the children are
\* spawned all the same.
InsertToastUi_NoMarker(w, e) ==
    [w EXCEPT !.buttons = [b \in DOMAIN @ \cup {e} |->
                              IF b = e THEN "None" ELSE @[b]]]

\* commands.entity(entity).insert((ToastUi, NodeBundle, M::default()))
\*     .with_children(dismiss button, text)
\* The entity gains ToastUi, so it leaves the table of the toasts without
\* ToastUi; its dismiss button starts with Interaction::None.
InsertToastUi(w, e) ==
    [w EXCEPT !.toasts[e].ui = TRUE,
              !.table[w.toasts[e].marker] = RemoveRow(@, e),
              !.buttons = [b \in DOMAIN @ \cup {e} |->
                              IF b = e THEN "None" ELSE @[b]]]

\* Mutant: the promoted toast is not added to the root.
AddChild_Forgotten(w, e) == w

\* commands.entity(root).add_child(entity)
AddChild(w, e) == [w EXCEPT !.toasts[e].parent = TRUE]

ApplyCommand(w, c) ==
    CASE c.op = "spawn_root" -> SpawnRoot(w, c.marker)
      [] c.op = "despawn_root" -> DespawnRoot(w, c.marker)
      [] c.op = "insert_ui" -> InsertToastUi(w, c.entity)
      [] c.op = "add_child" -> AddChild(w, c.entity)
      [] c.op = "despawn" -> DespawnToast(w, c.entity)

RECURSIVE ApplyCommands(_, _)
ApplyCommands(w, cmds) ==
    IF cmds = <<>> THEN w
    ELSE ApplyCommands(ApplyCommand(w, Head(cmds)), Tail(cmds))

\* The synchronisation point: every queued command, in queue order.
apply_deferred(w) == ApplyCommands([w EXCEPT !.commands = <<>>], w.commands)

----------------------------------------------------------------------------
\* Emission.  The spawn commands of toast and custom_toast are applied when
\* the Update schedule ends, before PostUpdate starts.

SpawnToasts(w, M, toasts) ==
    LET n == w.allocated[M]
        new == {<<M, n + i>> : i \in 1..Len(toasts)}
    IN [w EXCEPT
          !.toasts = [e \in DOMAIN @ \cup new |->
                        IF e \in new
                        THEN Toast_bundle(toasts[e[2] - n], ToastLifetime, M)
                        ELSE @[e]],
          !.table[M] = @ \o [i \in 1..Len(toasts) |-> <<M, n + i>>],
          !.allocated[M] = n + Len(toasts)]

\* Mutant: the loop starts at the second message.
toast_SkipFirst(w, toasts) ==
    SpawnToasts(w, "ToastMarker", SubSeq(toasts, 2, Len(toasts)))

\* ToastPlugin::toast
toast(w, toasts) == SpawnToasts(w, "ToastMarker", toasts)

\* Mutant: a hard capacity, messages beyond the free slots are rejected.
custom_toast_Rejecting(w, M, toasts) ==
    LET held == Cardinality({e \in DOMAIN w.toasts : w.toasts[e].marker = M})
    IN SpawnToasts(w, M, Take(toasts, IF held >= MaxToasts THEN 0
                                      ELSE MaxToasts - held))

\* Mutant: the toasts are spawned with ToastMarker instead of M::default().
custom_toast_DefaultMarker(w, M, toasts) == SpawnToasts(w, "ToastMarker", toasts)

\* ToastPlugin::<M>::custom_toast
custom_toast(w, M, toasts) == SpawnToasts(w, M, toasts)

----------------------------------------------------------------------------
\* The chained systems of ToastPlugin<M>

\* Mutant: the despawn of the expiry branch is not commented out.
tick_active_toasts_Expire(w, M, d) ==
    LET ticked == [w EXCEPT !.toasts = [e \in DOMAIN @ |->
                      IF e \in spawned_toasts(w, M)
                      THEN [@[e] EXCEPT !.time_alive = @ + d]
                      ELSE @[e]]]
        expired == SetToSeq({e \in spawned_toasts(w, M) :
                      ticked.toasts[e].time_alive > ticked.toasts[e].lifetime})
    IN Push(ticked, [i \in 1..Len(expired) |-> Cmd("despawn", expired[i], M)])

\* Mutant: the query lacks With<ToastUi>, so waiting toasts are ticked too.
tick_active_toasts_AllToasts(w, M, d) ==
    [w EXCEPT !.toasts = [e \in DOMAIN @ |->
                            IF @[e].marker = M
                            THEN [@[e] EXCEPT !.time_alive = @ + d]
                            ELSE @[e]]]

\* timer.time_alive.tick(time.delta()) for every toast with M and ToastUi;
\* the branch taken when elapsed > lifetime is empty.
tick_active_toasts(w, M, d) ==
    [w EXCEPT !.toasts = [e \in DOMAIN @ |->
                            IF e \in spawned_toasts(w, M)
                            THEN [@[e] EXCEPT !.time_alive = @ + d]
                            ELSE @[e]]]

num_live_toasts(w, M) == Cardinality(spawned_toasts(w, M))

num_unspawned_toasts(w, M) == Len(toasts_to_spawn(w, M))

\* usize::saturating_sub
saturating_sub(a, b) == IF a >= b THEN a - b ELSE 0

\* Mutant: the live toasts are not subtracted.
num_toast_spaces_IgnoreLive(w, M) == MaxToasts

\* Mutant: one slot too few.
num_toast_spaces_OffByOne(w, M) ==
    saturating_sub(MaxToasts, num_live_toasts(w, M) + 1)

num_toast_spaces(w, M) == saturating_sub(MaxToasts, num_live_toasts(w, M))

\* Mutant: only the live toasts are counted.
NoToasts_LiveOnly(w, M) == num_live_toasts(w, M) = 0

\* num_unspawned_toasts + num_live_toasts == 0
NoToasts(w, M) == num_unspawned_toasts(w, M) + num_live_toasts(w, M) = 0

\* Mutant: the despawn of the root is commented out.
despawn_toast_root_KeepEmpty(w, M) == w

\* Mutant: the root is removed when no toast is live, waiting ones or not.
despawn_toast_root_LiveOnly(w, M) ==
    IF num_live_toasts(w, M) = 0
    THEN IF toasts_ui_root(w, M) # 0
         THEN Push(w, <<Cmd("despawn_root", RootOf(M), M)>>)
         ELSE w
    ELSE w

despawn_toast_root(w, M) ==
    IF NoToasts(w, M)
    THEN IF toasts_ui_root(w, M) # 0
         THEN Push(w, <<Cmd("despawn_root", RootOf(M), M)>>)
         ELSE w
    ELSE w

\* Mutant: a root is spawned whenever there are toasts.
NeedsRoot_Always(w, M) == TRUE

\* "if there are toasts and no root, add one first"
NeedsRoot(w, M) == toasts_ui_root(w, M) = 0

\* Mutant: the waiting toasts are promoted all together or not at all.
ToPromote_AllOrNothing(w, M) ==
    IF Len(toasts_to_spawn(w, M)) <= num_toast_spaces(w, M)
    THEN toasts_to_spawn(w, M)
    ELSE <<>>

\* "spawn any toasts that we can"
ToPromote(w, M) == Take(toasts_to_spawn(w, M), num_toast_spaces(w, M))

spawn_toasts(w, M) ==
    IF NoToasts(w, M)
    THEN w
    ELSE LET taken == ToPromote(w, M)
             root == IF NeedsRoot(w, M)
                     THEN <<Cmd("spawn_root", RootOf(M), M)>>
                     ELSE <<>>
             each == [i \in 1..(2 * Len(taken)) |->
                        IF i % 2 = 1
                        THEN Cmd("insert_ui", taken[(i + 1) \div 2], M)
                        ELSE Cmd("add_child", taken[i \div 2], M)]
         IN Push(w, root \o each)

\* Mutant: the Interaction of the button is not looked at.
handle_dismiss_toast_buttons_AnyInteraction(w, M) ==
    LET order == SetToSeq(dismiss_buttons(w, M))
    IN Push(w, [i \in 1..Len(order) |-> Cmd("despawn", order[i], M)])

\* The query has no With<M> filter: the system of every plugin sees every
\* dismiss button.
handle_dismiss_toast_buttons(w, M) ==
    LET pressed == {b \in dismiss_buttons(w, M) : w.buttons[b] = "Pressed"}
        order == SetToSeq(pressed)
    IN Push(w, [i \in 1..Len(order) |-> Cmd("despawn", order[i], M)])

----------------------------------------------------------------------------
\* The schedule of one frame

\* Mutant: the chain in the order teardown, admission, clock, dismissal.
Chain_ClockThird ==
    <<"despawn_toast_root", "spawn_toasts", "tick_active_toasts",
      "handle_dismiss_toast_buttons">>

\* (tick_active_toasts, despawn_toast_root, spawn_toasts,
\*  handle_dismiss_toast_buttons).chain()
Chain ==
    <<"tick_active_toasts", "despawn_toast_root", "spawn_toasts",
      "handle_dismiss_toast_buttons">>

\* The phase after p: the next system of the chain, or the next frame.
NextPhase(p) ==
    LET i == CHOOSE k \in 1..Len(Chain) : Chain[k] = p
    IN IF i = Len(Chain) THEN "First" ELSE Chain[i + 1]

\* The plugins are not ordered among themselves: the systems of one link of
\* the chain run in either order, all before the link's synchronisation
\* point.
Orders == {<<"ToastMarker", "MyToast">>, <<"MyToast", "ToastMarker">>}

\* ui_focus_system (PreUpdate) sets the Interaction of the dismiss button
\* under the pointer.
Press(w, b) == [w EXCEPT !.buttons[b] = "Pressed"]

PressedButtons(w) == {b \in DOMAIN w.buttons : w.buttons[b] = "Pressed"}

\* The observer's memory (it takes no part in the program):
\*   arrived    per channel, the number of records emitted before the last
\*              admission phase ran; the records with a higher arrival number
\*              have not been through an admission phase yet
\*   destroyed  the channels whose container the teardown phase of this tick
\*              destroyed (kept until the admission phase of the tick)
\*   piped      the last run of a system piped into the adapter: the Result
\*              the system returned and what the adapter passed on
\*   alternating  whether the piped system has so far succeeded in every odd
\*              tick and failed in every even tick
NothingObserved ==
    [arrived |-> [M \in Channels |-> 0], destroyed |-> {},
     piped |-> <<>>, alternating |-> TRUE]

Init ==
    /\ world = NewWorld
    /\ shadow = [A \in Channels |-> NewWorld]
    /\ phase = "First"
    /\ delta \in Deltas
    /\ frame = 0
    /\ activated = FALSE
    /\ emitted = [M \in Channels |-> 0]
    /\ observed = NothingObserved

TotalEmitted == emitted["ToastMarker"] + emitted["MyToast"]

\* A frame starts: Time advances by delta.
StartFrame ==
    /\ phase = "First"
    /\ frame < MaxFrames
    /\ phase' = "PreUpdate"
    /\ frame' = frame + 1
    /\ UNCHANGED <<world, delta, activated, emitted>>

\* The pointer is over one node: at most one button is Pressed.
Activate(b) ==
    /\ phase = "PreUpdate"
    /\ b \in DOMAIN world.buttons
    /\ PressedButtons(world) = {}
    /\ world' = Press(world, b)
    /\ activated' = TRUE
    /\ UNCHANGED <<sched, emitted>>

RunUpdate ==
    /\ phase = "PreUpdate"
    /\ phase' = "Update"
    /\ UNCHANGED <<world, delta, frame, activated, emitted>>

EmitToast(n) ==
    /\ phase = "Update"
    /\ TotalEmitted + n <= MaxRecords
    /\ world' = toast(world, Batch(emitted["ToastMarker"], n))
    /\ emitted' = [emitted EXCEPT !["ToastMarker"] = @ + n]
    /\ UNCHANGED <<sched, activated>>

EmitCustomToast(M, n) ==
    /\ phase = "Update"
    /\ TotalEmitted + n <= MaxRecords
    /\ world' = custom_toast(world, M, Batch(emitted[M], n))
    /\ emitted' = [emitted EXCEPT ![M] = @ + n]
    /\ UNCHANGED <<sched, activated>>

RunPostUpdate ==
    /\ phase = "Update"
    /\ phase' = Chain[1]
    /\ UNCHANGED <<world, delta, frame, activated, emitted>>

\* One link of the chain: the system of every plugin runs, in the order o,
\* then the synchronisation point applies the commands they queued.
RunTick(w, o, d) ==
    apply_deferred(tick_active_toasts(tick_active_toasts(w, o[1], d), o[2], d))

RunTeardown(w, o) ==
    apply_deferred(despawn_toast_root(despawn_toast_root(w, o[1]), o[2]))

RunAdmission(w, o) ==
    apply_deferred(spawn_toasts(spawn_toasts(w, o[1]), o[2]))

RunDismissal(w, o) ==
    apply_deferred(
        handle_dismiss_toast_buttons(handle_dismiss_toast_buttons(w, o[1]), o[2]))

Link(p) ==
    /\ phase = p
    /\ phase' = NextPhase(p)
    /\ UNCHANGED <<delta, frame, activated, emitted>>

TickActiveToasts(o) ==
    /\ Link("tick_active_toasts")
    /\ world' = RunTick(world, o, delta)

DespawnToastRoot(o) ==
    /\ Link("despawn_toast_root")
    /\ world' = RunTeardown(world, o)

SpawnToastsSystem(o) ==
    /\ Link("spawn_toasts")
    /\ world' = RunAdmission(world, o)

HandleDismissToastButtons(o) ==
    /\ Link("handle_dismiss_toast_buttons")
    /\ world' = RunDismissal(world, o)

Next ==
    \/ StartFrame /\ UNCHANGED <<shadow, observed>>
    \/ \E b \in DOMAIN world.buttons : Activate(b) /\ UNCHANGED <<shadow, observed>>
    \/ RunUpdate /\ UNCHANGED <<shadow, observed>>
    \/ \E n \in 0..MaxRecords : EmitToast(n) /\ UNCHANGED <<shadow, observed>>
    \/ \E M \in Channels, n \in 0..MaxRecords :
          EmitCustomToast(M, n) /\ UNCHANGED <<shadow, observed>>
    \/ RunPostUpdate /\ UNCHANGED <<shadow, observed>>
    \/ \E o \in Orders : TickActiveToasts(o) /\ UNCHANGED <<shadow, observed>>
    \/ \E o \in Orders : DespawnToastRoot(o) /\ UNCHANGED <<shadow, observed>>
    \/ \E o \in Orders : SpawnToastsSystem(o) /\ UNCHANGED <<shadow, observed>>
    \/ \E o \in Orders : HandleDismissToastButtons(o) /\ UNCHANGED <<shadow, observed>>

Spec == Init /\ [][Next]_vars

----------------------------------------------------------------------------
\* Two runs side by side.  world is a run of the program; shadow[A] is the
\* run that gets the same frames, delta, system orders, emissions and
\* pointer presses, except that nothing is emitted on channel A (so no
\* dismiss button of an A toast exists to be pressed).

ShadowActivate(b) ==
    shadow' = [A \in Channels |->
                  IF b \in DOMAIN shadow[A].buttons
                  THEN Press(shadow[A], b)
                  ELSE shadow[A]]

ShadowEmitToast(n) ==
    shadow' = [A \in Channels |->
                  IF A = "ToastMarker"
                  THEN shadow[A]
                  ELSE toast(shadow[A], Batch(emitted["ToastMarker"], n))]

ShadowEmitCustomToast(M, n) ==
    shadow' = [A \in Channels |->
                  IF A = M
                  THEN shadow[A]
                  ELSE custom_toast(shadow[A], M, Batch(emitted[M], n))]

NextIso ==
    \/ StartFrame /\ UNCHANGED <<shadow, observed>>
    \/ \E b \in DOMAIN world.buttons : Activate(b) /\ ShadowActivate(b) /\ UNCHANGED observed
    \/ RunUpdate /\ UNCHANGED <<shadow, observed>>
    \/ \E n \in 0..MaxRecords : EmitToast(n) /\ ShadowEmitToast(n) /\ UNCHANGED observed
    \/ \E M \in Channels, n \in 0..MaxRecords :
          /\ EmitCustomToast(M, n) /\ ShadowEmitCustomToast(M, n)
          /\ UNCHANGED observed
    \/ RunPostUpdate /\ UNCHANGED <<shadow, observed>>
    \/ \E o \in Orders :
          /\ TickActiveToasts(o)
          /\ shadow' = [A \in Channels |-> RunTick(shadow[A], o, delta)]
          /\ UNCHANGED observed
    \/ \E o \in Orders :
          /\ DespawnToastRoot(o)
          /\ shadow' = [A \in Channels |-> RunTeardown(shadow[A], o)]
          /\ UNCHANGED observed
    \/ \E o \in Orders :
          /\ SpawnToastsSystem(o)
          /\ shadow' = [A \in Channels |-> RunAdmission(shadow[A], o)]
          /\ UNCHANGED observed
    \/ \E o \in Orders :
          /\ HandleDismissToastButtons(o)
          /\ shadow' = [A \in Channels |-> RunDismissal(shadow[A], o)]
          /\ UNCHANGED observed

SpecIso == Init /\ [][NextIso]_vars

----------------------------------------------------------------------------
\* The run with its observer: the steps of Next, the observer noting which
\* containers the teardown phase destroyed and which records have been
\* through an admission phase.

ObserveTeardown ==
    observed' = [observed EXCEPT !.destroyed =
                    {M \in Channels :
                        toasts_ui_root(world', M) < toasts_ui_root(world, M)}]

ObserveAdmission ==
    observed' = [observed EXCEPT !.arrived = world.allocated, !.destroyed = {}]

NextObs ==
    \/ StartFrame /\ UNCHANGED <<shadow, observed>>
    \/ \E b \in DOMAIN world.buttons : Activate(b) /\ UNCHANGED <<shadow, observed>>
    \/ RunUpdate /\ UNCHANGED <<shadow, observed>>
    \/ \E n \in 0..MaxRecords : EmitToast(n) /\ UNCHANGED <<shadow, observed>>
    \/ \E M \in Channels, n \in 0..MaxRecords :
          EmitCustomToast(M, n) /\ UNCHANGED <<shadow, observed>>
    \/ RunPostUpdate /\ UNCHANGED <<shadow, observed>>
    \/ \E o \in Orders : TickActiveToasts(o) /\ UNCHANGED <<shadow, observed>>
    \/ \E o \in Orders : DespawnToastRoot(o) /\ UNCHANGED shadow /\ ObserveTeardown
    \/ \E o \in Orders : SpawnToastsSystem(o) /\ UNCHANGED shadow /\ ObserveAdmission
    \/ \E o \in Orders :
          HandleDismissToastButtons(o) /\ UNCHANGED <<shadow, observed>>

SpecObs == Init /\ [][NextObs]_vars

----------------------------------------------------------------------------
\* The adapter of the example: app.add_systems(Update, fire_error.anyhow_alert())
\* with AlertsPlugin installed.  fire_error is the example's system; the
\* adapter itself (AnyhowAlertExt::anyhow_alert, AlertsPlugin) is modelled
\* after its specification: a failure becomes one message, the display text
\* of the error, emitted to the default channel; a success emits nothing and
\* its value is passed on.

Ok(v) == [ok |-> TRUE, value |-> v]

Err(e) == [ok |-> FALSE, error |-> e]

\* impl Display for MyError: write!(f, "My Error")
MyError == [display |-> "My Error"]

\* fire_error: Err(anyhow::Error::new(MyError)) if Space was just pressed,
\* Ok(()) otherwise.
fire_error(just_pressed) == IF just_pressed THEN Err(MyError) ELSE Ok("()")

None == [some |-> FALSE]

Some(v) == [some |-> TRUE, value |-> v]

\* The adapter in single-failure mode: the messages it emits and the value
\* it passes on.
anyhow_alert(result) ==
    IF result.ok
    THEN [toasts |-> <<>>, out |-> Some(result.value)]
    ELSE [toasts |-> <<result.error.display>>, out |-> None]

StartAdapterFrame ==
    /\ phase = "First"
    /\ frame < MaxAdapterFrames
    /\ phase' = "PreUpdate"
    /\ frame' = frame + 1
    /\ UNCHANGED <<world, delta, activated, emitted>>

\* The Update schedule runs the piped system once, then PostUpdate starts.
RunAdapterUpdate(just_pressed) ==
    LET result == fire_error(just_pressed)
        piped == anyhow_alert(result)
    IN /\ phase = "Update"
       /\ world' = toast(world, piped.toasts)
       /\ emitted' = [emitted EXCEPT !["ToastMarker"] = @ + Len(piped.toasts)]
       /\ phase' = Chain[1]
       /\ observed' = [observed EXCEPT
             !.piped = <<[result |-> result, out |-> piped.out]>>,
             !.alternating = @ /\ (result.ok <=> frame % 2 = 1)]
       /\ UNCHANGED <<delta, frame, activated>>

NextAdapter ==
    \/ StartAdapterFrame /\ UNCHANGED <<shadow, observed>>
    \/ \E b \in DOMAIN world.buttons : Activate(b) /\ UNCHANGED <<shadow, observed>>
    \/ RunUpdate /\ UNCHANGED <<shadow, observed>>
    \/ \E just_pressed \in BOOLEAN : RunAdapterUpdate(just_pressed) /\ UNCHANGED shadow
    \/ \E o \in Orders : TickActiveToasts(o) /\ UNCHANGED <<shadow, observed>>
    \/ \E o \in Orders : DespawnToastRoot(o) /\ UNCHANGED <<shadow, observed>>
    \/ \E o \in Orders : SpawnToastsSystem(o) /\ UNCHANGED <<shadow, observed>>
    \/ \E o \in Orders :
          HandleDismissToastButtons(o) /\ UNCHANGED <<shadow, observed>>

SpecAdapter == Init /\ [][NextAdapter]_vars

----------------------------------------------------------------------------
\* Properties

\* The records of a channel, and those waiting (without ToastUi).
Records(w, M) == {e \in DOMAIN w.toasts : w.toasts[e].marker = M}

PendingRecords(w, M) == {e \in Records(w, M) : ~w.toasts[e].ui}

PromotedRecords(w, M) == {e \in Records(w, M) : w.toasts[e].ui}

Expired(w, e) == w.toasts[e].time_alive > w.toasts[e].lifetime

Min(a, b) == IF a <= b THEN a ELSE b

Max(a, b) == IF a >= b THEN a ELSE b

\* C1: in every reachable state and for every channel, the number of
\* promoted records (those with ToastUi) is at most max_visible.
C1_Capacity ==
    \A M \in Channels : Cardinality(PromotedRecords(world, M)) <= MaxToasts

\* A channel at capacity with a record waiting, after an admission that had
\* no free slot.
C1_Witness ==
    /\ phase = "handle_dismiss_toast_buttons"
    /\ frame >= 2
    /\ \E M \in Channels :
          /\ Cardinality(PromotedRecords(world, M)) = MaxToasts
          /\ PendingRecords(world, M) # {}
          /\ \A e \in PromotedRecords(world, M) : world.toasts[e].time_alive > 0

\* C2 (as claimed): within a channel no later-arrived record is promoted
\* while an earlier-arrived record is still pending (arrival order is the
\* order of the arrival numbers).
C2_NoOvertaking ==
    \A M \in Channels :
        \A e1 \in PendingRecords(world, M), e2 \in PromotedRecords(world, M) :
            e2[2] < e1[2]

\* C3: the admission phase of every tick promotes, in every channel, exactly
\* min(max(0, max_visible - live), pending) records, so that afterwards no
\* slot is free while a record of the channel is pending.
C3_ExactAdmission ==
    [][phase = "spawn_toasts" =>
          \A M \in Channels :
              LET live == Cardinality(PromotedRecords(world, M))
                  pending == Cardinality(PendingRecords(world, M))
                  admitted == PromotedRecords(world', M) \ PromotedRecords(world, M)
              IN /\ admitted \subseteq PendingRecords(world, M)
                 /\ PromotedRecords(world, M) \subseteq PromotedRecords(world', M)
                 /\ Cardinality(admitted) = Min(Max(0, MaxToasts - live), pending)
                 /\ (PendingRecords(world', M) # {} =>
                        Cardinality(PromotedRecords(world', M)) >= MaxToasts)
      ]_vars

\* After an admission into a partly filled channel: a record promoted in
\* this tick beside older promoted records, one record still waiting.
C3_Witness ==
    /\ phase = "handle_dismiss_toast_buttons"
    /\ \E M \in Channels :
          /\ \E e \in PromotedRecords(world, M) : world.toasts[e].time_alive = 0
          /\ \E e \in PromotedRecords(world, M) : world.toasts[e].time_alive > 0
          /\ PendingRecords(world, M) # {}

\* C4: every channel has at most one container in every reachable state; a
\* container is created only by the admission phase, one at a time, so a
\* tick creates at most one per channel.
C4_OneContainer ==
    /\ [](\A M \in Channels : toasts_ui_root(world, M) <= 1)
    /\ [][\A M \in Channels :
             toasts_ui_root(world', M) > toasts_ui_root(world, M) =>
                 /\ phase = "spawn_toasts"
                 /\ toasts_ui_root(world', M) = toasts_ui_root(world, M) + 1
         ]_vars

\* Several records emitted to an empty channel in the first tick, admitted
\* under one container.
C4_Witness ==
    /\ frame = 1
    /\ phase = "handle_dismiss_toast_buttons"
    /\ \E M \in Channels :
          /\ toasts_ui_root(world, M) = 1
          /\ Cardinality(PromotedRecords(world, M)) >= 2

\* C5 (as claimed): at the start of every tick a channel has a container if
\* and only if it has at least one pending or promoted record.
C5_ContainerIffRecords ==
    phase = "First" =>
        \A M \in Channels : toasts_ui_root(world, M) >= 1 <=> Records(world, M) # {}

\* C5 (amended): at the start of every tick a channel with a record has a
\* container, and after the admission phase of every tick a channel has a
\* container if and only if it has a record.
C5_ContainerAmended ==
    /\ phase = "First" =>
          \A M \in Channels : Records(world, M) # {} => toasts_ui_root(world, M) = 1
    /\ phase = "handle_dismiss_toast_buttons" =>
          \A M \in Channels : toasts_ui_root(world, M) >= 1 <=> Records(world, M) # {}

\* The start of a tick at which one channel has records and a container and
\* the other still has the container of its dismissed last record.
C5_Witness ==
    /\ phase = "First"
    /\ \E M \in Channels : Records(world, M) # {} /\ toasts_ui_root(world, M) = 1
    /\ \E M \in Channels : Records(world, M) = {} /\ toasts_ui_root(world, M) = 1

\* What a channel's state is made of: its records with their components,
\* the order of its waiting records, its containers, its dismiss buttons.
ChannelState(w, M) ==
    [records |-> Restrict(w.toasts, Records(w, M)),
     waiting |-> toasts_to_spawn(w, M),
     container |-> toasts_ui_root(w, M),
     buttons |-> Restrict(w.buttons, {b \in DOMAIN w.buttons : b[1] = M})]

\* C6: for channels A and B, B's pending count, promoted count, container
\* and promoted records (hence the tick of each promotion) are in every state
\* those of the run in which nothing is emitted on A; so is all of B's state.
C6_ChannelIsolation ==
    \A A \in Channels : \A B \in Channels \ {A} :
        /\ Cardinality(PendingRecords(world, B)) =
              Cardinality(PendingRecords(shadow[A], B))
        /\ Cardinality(PromotedRecords(world, B)) =
              Cardinality(PromotedRecords(shadow[A], B))
        /\ toasts_ui_root(world, B) = toasts_ui_root(shadow[A], B)
        /\ PromotedRecords(world, B) = PromotedRecords(shadow[A], B)
        /\ ChannelState(world, B) = ChannelState(shadow[A], B)

\* Channel A full with a record waiting, channel B with a promoted and a
\* waiting record, beside the run in which A got nothing.
C6_Witness ==
    \E A \in Channels : \E B \in Channels \ {A} :
        /\ frame >= 2
        /\ Cardinality(PromotedRecords(world, A)) = MaxToasts
        /\ PendingRecords(world, A) # {}
        /\ PromotedRecords(world, B) # {}
        /\ Records(shadow[A], A) = {}
        /\ toasts_ui_root(shadow[A], A) = 0
        /\ PromotedRecords(shadow[A], B) # {}

\* C7: as long as no dismiss control has been activated, the records of a
\* channel (pending and promoted) are as many as the messages emitted to it
\* so far, whatever their number and age, for the default and the custom
\* channel alike.
C7_NoRequestDropped ==
    ~activated =>
        \A M \in Channels : Cardinality(Records(world, M)) = emitted[M]

\* More messages than max_visible on the default channel, some on the custom
\* one, a promoted record past its lifetime, no dismissal so far.
C7_Witness ==
    /\ ~activated
    /\ phase = "First"
    /\ emitted["ToastMarker"] > MaxToasts
    /\ emitted["MyToast"] >= 1
    /\ \E e \in PromotedRecords(world, "MyToast") : Expired(world, e)
    /\ \E e \in PromotedRecords(world, "ToastMarker") : Expired(world, e)

C9_NoAutomaticExpiry ==
    [][\A e \in DOMAIN world.toasts :
          (world.toasts[e].ui /\ e \notin PressedButtons(world)) =>
              /\ e \in DOMAIN world'.toasts
              /\ world'.toasts[e].ui
              /\ Expired(world, e) => Expired(world', e)
      ]_vars

\* A promoted record that was past its lifetime before the last clock
\* advance and is still promoted at the end of that tick, its channel full.
C9_Witness ==
    /\ phase = "First"
    /\ \E M \in Channels : \E e \in PromotedRecords(world, M) :
          /\ world.toasts[e].time_alive - delta > world.toasts[e].lifetime
          /\ Cardinality(PromotedRecords(world, M)) = MaxToasts

\* C10: the clock phase adds the tick's delta to the elapsed time of every
\* promoted record and to no other; no other step changes an elapsed time;
\* a pending record has elapsed time 0.
C10_ClockAdvance ==
    /\ [](\A e \in DOMAIN world.toasts :
             ~world.toasts[e].ui => world.toasts[e].time_alive = 0)
    /\ [][\A e \in DOMAIN world.toasts \cap DOMAIN world'.toasts :
             world'.toasts[e].time_alive =
                 IF phase = "tick_active_toasts" /\ world.toasts[e].ui
                 THEN world.toasts[e].time_alive + delta
                 ELSE world.toasts[e].time_alive
         ]_vars
    /\ [][phase = "tick_active_toasts" =>
             DOMAIN world'.toasts = DOMAIN world.toasts]_vars

\* Right after a clock advance: a record ticked twice, a record ticked once
\* and a record that is still pending at 0.
C10_Witness ==
    /\ phase = "despawn_toast_root"
    /\ \E M \in Channels :
          /\ \E e \in PromotedRecords(world, M) :
                world.toasts[e].time_alive = 2 * delta
          /\ \E e \in PromotedRecords(world, M) :
                world.toasts[e].time_alive = delta
          /\ \E e \in PendingRecords(world, M) : world.toasts[e].time_alive = 0

\* C11: the dismissal phase removes exactly the promoted records whose
\* dismiss control is Pressed, each with its widget and its dismiss control;
\* every other record of every channel keeps all its components, the waiting
\* records keep their order, and the containers are unchanged.
C11_DismissalFrame ==
    [][phase = "handle_dismiss_toast_buttons" =>
          LET gone == PressedButtons(world)
              kept == DOMAIN world.toasts \ gone
          IN /\ gone \subseteq DOMAIN world.toasts
             /\ \A e \in gone : world.toasts[e].ui
             /\ world'.toasts = Restrict(world.toasts, kept)
             /\ world'.buttons = Restrict(world.buttons, DOMAIN world.buttons \ gone)
             /\ \A M \in Channels :
                   /\ toasts_ui_root(world', M) = toasts_ui_root(world, M)
                   /\ toasts_to_spawn(world', M) = toasts_to_spawn(world, M)
      ]_vars

\* The end of a tick whose dismissal phase removed a record of a full channel
\* that had a record waiting: two promoted records and the container are
\* left, and the other channel still has its promoted record.
C11_Witness ==
    /\ phase = "First"
    /\ \E M \in Channels : \E B \in Channels \ {M} :
          /\ world.allocated[M] = Cardinality(Records(world, M)) + 1
          /\ Cardinality(PromotedRecords(world, M)) = MaxToasts - 1
          /\ PendingRecords(world, M) # {}
          /\ toasts_ui_root(world, M) = 1
          /\ PromotedRecords(world, B) # {}

\* The records of a channel that were pending when the last admission phase
\* ran and still are.  After an admission phase no slot is free while a
\* record is pending, so when such a record finds a free slot, the channel was
\* at capacity with it pending and a promoted record was dismissed in the
\* tick before.
LeftPending(M) == {e \in PendingRecords(world, M) : e[2] <= observed.arrived[M]}

Earliest(S) == CHOOSE e \in S : \A f \in S : e[2] <= f[2]

\* C12 (as claimed): when a channel was at capacity with a record pending and
\* a promoted record was dismissed in tick k, the admission phase of tick k+1
\* promotes the earliest-arrived pending record.
C12_RefillEarliest ==
    [][phase = "spawn_toasts" =>
          \A M \in Channels :
              (/\ LeftPending(M) # {}
               /\ Cardinality(PromotedRecords(world, M)) < MaxToasts)
              => Earliest(LeftPending(M)) \in PromotedRecords(world', M)
      ]_vars

\* C13: an emission of n messages to a channel creates exactly n records of
\* that channel, the i-th of them (in arrival order, which is also their
\* order among the waiting records) carrying the i-th message, each pending
\* (no widget, no dismiss control), with elapsed time 0 and the channel's
\* default lifetime; every older record, every other channel and the
\* containers are unchanged; an emission of the empty sequence leaves the
\* World as it is.
C13_Emission ==
    /\ [](/\ toast(world, <<>>) = world
          /\ \A M \in Channels : custom_toast(world, M, <<>>) = world)
    /\ [][(phase = "Update" /\ phase' = "Update") =>
             \A M \in Channels :
                 LET n == emitted'[M] - emitted[M]
                     k == world.allocated[M]
                     msgs == Batch(emitted[M], n)
                     new == {<<M, k + i>> : i \in 1..n}
                 IN /\ n >= 0
                    /\ Records(world', M) = Records(world, M) \cup new
                    /\ new \cap Records(world, M) = {}
                    /\ Cardinality(new) = n
                    /\ \A e \in Records(world, M) : world'.toasts[e] = world.toasts[e]
                    /\ \A i \in 1..n :
                          world'.toasts[<<M, k + i>>] =
                              [message |-> msgs[i], time_alive |-> 0,
                               lifetime |-> ToastLifetime, marker |-> M,
                               ui |-> FALSE, parent |-> FALSE]
                    /\ toasts_to_spawn(world', M) =
                          toasts_to_spawn(world, M) \o [i \in 1..n |-> <<M, k + i>>]
                    /\ toasts_ui_root(world', M) = toasts_ui_root(world, M)
                    /\ world'.buttons = world.buttons
         ]_vars

\* During Update of a later tick: two or more records just emitted to a
\* channel that has promoted records from earlier ticks and a free slot, and
\* records of the other channel beside them.
C13_Witness ==
    /\ phase = "Update"
    /\ frame >= 2
    /\ \E M \in Channels : \E B \in Channels \ {M} :
          /\ \E e \in PromotedRecords(world, M) : world.toasts[e].time_alive > 0
          /\ Cardinality(PromotedRecords(world, M)) < MaxToasts
          /\ Cardinality(PendingRecords(world, M)) >= 2
          /\ \A e \in PendingRecords(world, M) :
                /\ world.toasts[e].time_alive = 0
                /\ world.toasts[e].lifetime = ToastLifetime
          /\ Records(world, B) # {}

\* C14: every run of the wrapped system that succeeds creates no record,
\* changes nothing in the World and has its value passed on unchanged; every
\* run that fails creates exactly one record, pending on the default
\* channel, whose message is the display text of the error, and passes no
\* failure on; when the system succeeded in ticks 1 and 3 and failed in ticks
\* 2 and 4, two records have been created after 4 ticks, and both exist
\* unless a dismiss control was activated.
C14_AdapterTransparency ==
    /\ [][(phase = "Update" /\ phase' # "Update") =>
             LET run == observed'.piped[1]
                 new == <<"ToastMarker", world.allocated["ToastMarker"] + 1>>
             IN /\ Len(observed'.piped) = 1
                /\ run.result.ok =>
                      /\ world' = world
                      /\ run.out = Some(run.result.value)
                /\ ~run.result.ok =>
                      /\ run.out = None
                      /\ DOMAIN world'.toasts = DOMAIN world.toasts \cup {new}
                      /\ new \notin DOMAIN world.toasts
                      /\ world'.toasts[new].message = run.result.error.display
                      /\ ~world'.toasts[new].ui
                      /\ \A e \in DOMAIN world.toasts :
                            world'.toasts[e] = world.toasts[e]
         ]_vars
    /\ []((phase = "First" /\ frame = 4 /\ observed.alternating) =>
             /\ world.allocated["ToastMarker"] = 2
             /\ Records(world, "MyToast") = {}
             /\ ~activated => Cardinality(Records(world, "ToastMarker")) = 2)

\* The end of the fourth tick of the alternating system, no dismiss control
\* activated: the last run failed, the record of tick 2 is promoted and has
\* been ticked, the record of tick 4 is promoted.
C14_Witness ==
    /\ phase = "First"
    /\ frame = 4
    /\ observed.alternating
    /\ ~activated
    /\ observed.piped = <<[result |-> Err(MyError), out |-> None]>>
    /\ Cardinality(PromotedRecords(world, "ToastMarker")) = 2
    /\ \A e \in Records(world, "ToastMarker") : world.toasts[e].message = "My Error"

\* C15: the k messages of one call are k records with consecutive arrival
\* numbers.  In the first admission phase after their emission the free
\* slots go to the records left pending before, then to the new records in
\* collection order: with s slots left for them, exactly the first s are
\* promoted and the others stay pending, each with its message; no record is
\* removed by an admission phase; and in every later admission phase the
\* records left pending get as many of the free slots as they can fill.
C15_IndividualAdmission ==
    [][phase = "spawn_toasts" =>
          \A M \in Channels :
              LET live == Cardinality(PromotedRecords(world, M))
                  free == Max(0, MaxToasts - live)
                  old == LeftPending(M)
                  fresh == PendingRecords(world, M) \ old
                  admitted == PromotedRecords(world', M) \ PromotedRecords(world, M)
                  s == Min(Max(0, free - Cardinality(old)), Cardinality(fresh))
              IN /\ fresh = {<<M, i>> : i \in (observed.arrived[M] + 1)..world.allocated[M]}
                 /\ Records(world', M) = Records(world, M)
                 /\ \A e \in Records(world, M) :
                       world'.toasts[e].message = world.toasts[e].message
                 /\ admitted \cap fresh =
                       {e \in fresh : e[2] <= observed.arrived[M] + s}
                 /\ Cardinality(admitted \cap old) = Min(free, Cardinality(old))
                 /\ PendingRecords(world', M) = PendingRecords(world, M) \ admitted
      ]_vars

\* After the admission phase of a later tick: a channel with two promoted
\* records of earlier ticks got three messages; the first of them was
\* promoted into the one free slot, the other two are pending.
C15_Witness ==
    /\ phase = "handle_dismiss_toast_buttons"
    /\ \E M \in Channels :
          LET k == world.allocated[M]
          IN /\ k >= 3
             /\ <<M, k - 2>> \in PromotedRecords(world, M)
             /\ world.toasts[<<M, k - 2>>].time_alive = 0
             /\ {<<M, k - 1>>, <<M, k>>} \subseteq PendingRecords(world, M)
             /\ Cardinality(PendingRecords(world, M)) = 2
             /\ Cardinality({e \in PromotedRecords(world, M) :
                                world.toasts[e].time_alive > 0}) = 2

\* The state of the record with arrival number e[2] of channel e[1].
StateOf(w, e) ==
    IF e \in DOMAIN w.toasts
    THEN IF w.toasts[e].ui THEN "Promoted" ELSE "Pending"
    ELSE IF e[2] <= w.allocated[e[1]] THEN "Dismissed" ELSE "NotCreated"

\* C16: in every step every record stays in its state or moves from Pending
\* to Promoted (in the admission phase only) or from Promoted to Dismissed
\* (in the dismissal phase only, its dismiss control being Pressed); a record
\* is created Pending; a Dismissed record stays Dismissed; and in every state
\* the records that have a dismiss control are exactly the promoted ones.
C16_RecordStateMachine ==
    /\ [](DOMAIN world.buttons = {e \in DOMAIN world.toasts : world.toasts[e].ui})
    /\ [][\A M \in Channels : \A i \in 1..world'.allocated[M] :
             LET e == <<M, i>>
                 old == StateOf(world, e)
                 new == StateOf(world', e)
             IN /\ old = "NotCreated" => new = "Pending"
                /\ old = "Pending" => new \in {"Pending", "Promoted"}
                /\ old = "Promoted" => new \in {"Promoted", "Dismissed"}
                /\ old = "Dismissed" => new = "Dismissed"
                /\ (old = "Pending" /\ new = "Promoted") => phase = "spawn_toasts"
                /\ (old = "Promoted" /\ new = "Dismissed") =>
                      /\ phase = "handle_dismiss_toast_buttons"
                      /\ e \in PressedButtons(world)
         ]_vars

\* The end of the third tick of a channel: one record dismissed, a record
\* promoted in this tick into the slot that became free, older promoted
\* records and a record still pending.
C16_Witness ==
    /\ phase = "First"
    /\ \E M \in Channels :
          /\ \E i \in 1..world.allocated[M] : StateOf(world, <<M, i>>) = "Dismissed"
          /\ \E e \in PromotedRecords(world, M) : world.toasts[e].time_alive = 0
          /\ \E e \in PromotedRecords(world, M) : world.toasts[e].time_alive > 0
          /\ PendingRecords(world, M) # {}

\* C17: the teardown phase leaves the container of a channel that has a
\* pending or promoted record, and changes no record, so that the admission
\* phase, which runs next, counts the pending and promoted records the
\* teardown phase counted; the admission phase creates a container only for
\* a channel that has a record, and never for a channel whose container the
\* teardown phase of the same tick destroyed.
C17_NoDestroyWhileNeeded ==
    /\ [][phase = "despawn_toast_root" =>
             /\ phase' = "spawn_toasts"
             /\ \A M \in Channels :
                   /\ Records(world, M) # {} =>
                         toasts_ui_root(world', M) = toasts_ui_root(world, M)
                   /\ num_live_toasts(world', M) = num_live_toasts(world, M)
                   /\ num_unspawned_toasts(world', M) = num_unspawned_toasts(world, M)
                   /\ toasts_ui_root(world', M) < toasts_ui_root(world, M) =>
                         M \in observed'.destroyed
         ]_vars
    /\ [][phase = "spawn_toasts" =>
             \A M \in Channels :
                 toasts_ui_root(world', M) > toasts_ui_root(world, M) =>
                     /\ Records(world, M) # {}
                     /\ M \notin observed.destroyed
         ]_vars

\* Between the teardown and the admission phase of a tick: the container of
\* a channel whose last record was dismissed has just been destroyed, the
\* other channel has a promoted and a pending record and kept its container.
C17_Witness ==
    /\ phase = "spawn_toasts"
    /\ \E M \in Channels : \E B \in Channels \ {M} :
          /\ M \in observed.destroyed
          /\ toasts_ui_root(world, M) = 0
          /\ B \notin observed.destroyed
          /\ PromotedRecords(world, B) # {}
          /\ PendingRecords(world, B) # {}
          /\ toasts_ui_root(world, B) = 1

\* C18: the teardown phase of a tick leaves no container in a channel that
\* has no record (so the container of a channel whose last record was
\* dismissed in the tick before is destroyed, nothing having been emitted to
\* it since); a channel without container and without records gets a
\* container in no step that emits nothing to it; and a channel to which
\* nothing was ever emitted has no container.
C18_ContainerTeardown ==
    /\ [][phase = "despawn_toast_root" =>
             \A M \in Channels :
                 Records(world, M) = {} =>
                     /\ toasts_ui_root(world', M) = 0
                     /\ Records(world', M) = {}
         ]_vars
    /\ [][\A M \in Channels :
             (/\ toasts_ui_root(world, M) = 0
              /\ Records(world, M) = {}
              /\ emitted'[M] = emitted[M])
             => toasts_ui_root(world', M) = 0 /\ Records(world', M) = {}
         ]_vars
    /\ [](\A M \in Channels : emitted[M] = 0 => toasts_ui_root(world, M) = 0)

\* The end of the third tick: the only record of a channel was promoted in
\* tick 1 and dismissed in tick 2, the teardown phase of tick 3 destroyed
\* the container; the other channel never got a record and has no container.
C18_Witness ==
    /\ phase = "First"
    /\ frame = 3
    /\ \E M \in Channels : \E B \in Channels \ {M} :
          /\ emitted[M] = 1
          /\ Records(world, M) = {}
          /\ toasts_ui_root(world, M) = 0
          /\ emitted[B] = 0
          /\ toasts_ui_root(world, B) = 0

\* C19: in every state every promoted record of a channel is a child of the
\* container of the channel, of which there is exactly one; and no step
\* destroys the container of a channel that has a promoted record.
C19_PromotedUnderContainer ==
    /\ [](\A M \in Channels : \A e \in PromotedRecords(world, M) :
             /\ world.toasts[e].parent
             /\ toasts_ui_root(world, M) = 1)
    /\ [][\A M \in Channels :
             toasts_ui_root(world', M) < toasts_ui_root(world, M) =>
                 PromotedRecords(world, M) = {}
         ]_vars

\* Both channels with promoted records under their containers, in one of
\* them records promoted in two different ticks, in the other the first
\* record dismissed and the second one promoted under the container.
C19_Witness ==
    \E M \in Channels : \E B \in Channels \ {M} :
        /\ toasts_ui_root(world, M) = 1
        /\ \E e \in PromotedRecords(world, M) :
              world.toasts[e].parent /\ world.toasts[e].time_alive = delta
        /\ \E e \in PromotedRecords(world, M) :
              world.toasts[e].parent /\ world.toasts[e].time_alive = 0
        /\ toasts_ui_root(world, B) = 1
        /\ world.allocated[B] = 2
        /\ Cardinality(Records(world, B)) = 1
        /\ \A e \in Records(world, B) :
              /\ e[2] = 2
              /\ world.toasts[e].ui
              /\ world.toasts[e].parent

\* The removals the dismissal system of the plugin of channel M issues in
\* the World w.
RemovalsIssued(w, M) ==
    LET cmds == handle_dismiss_toast_buttons([w EXCEPT !.commands = <<>>], M).commands
    IN {i \in 1..Len(cmds) : cmds[i].op = "despawn"}

RemovalsOf(w, M, e) ==
    LET cmds == handle_dismiss_toast_buttons([w EXCEPT !.commands = <<>>], M).commands
    IN {i \in RemovalsIssued(w, M) : cmds[i].entity = e}

\* C20 (as claimed): in the dismissal phase the removal of a record whose
\* dismiss control is Pressed is issued by the plugin of the record's channel
\* only, once, so that no removal finds its record already removed.
C20_OwnChannelDismissal ==
    /\ [](phase = "handle_dismiss_toast_buttons" =>
             \A e \in PressedButtons(world) :
                 /\ Cardinality(RemovalsOf(world, e[1], e)) = 1
                 /\ \A B \in Channels \ {e[1]} : RemovalsOf(world, B, e) = {})
    /\ [][world'.despawn_errors = world.despawn_errors]_vars

====
